---- MODULE Spec2Model ----
(***************************************************************************)
(* Model of the heatmap statistics service (backend/services/             *)
(* heatmap_service.py): the immutable daily table, the per-instance       *)
(* result cache and the eight service operations.                         *)
(*                                                                         *)
(* Numbers.  A pandas/numpy float is a record [k, n, d]: k = "num" is the  *)
(* exact rational n/d in lowest terms with d > 0, k = "nan" is NaN (the    *)
(* absence marker of the pipeline), k = "inf"/"ninf" are the IEEE          *)
(* infinities.  Python's None is k = "none".  Daily values are finite or   *)
(* NaN; the inputs are small integers, for which the double operations    *)
(* used here (a correctly rounded division, sums of a few terms) order and *)
(* equate results as the exact rationals do.                               *)
(***************************************************************************)
EXTENDS Integers, Sequences, FiniteSets, TLC

VARIABLES data, cache, computed, result, callers

vars == <<data, cache, computed, result, callers>>

-----------------------------------------------------------------------------
(* Bounds of the model *)

\* daily values are NaN or an integer of 0..MaxVal
MaxVal == 2
\* consecutive months of a table of the long family
LongLen == 8
\* concurrent callers of the service
NumCallers == 2

-----------------------------------------------------------------------------
(* Floats *)

NaN == [k |-> "nan", n |-> 0, d |-> 1]
PosInf == [k |-> "inf", n |-> 1, d |-> 1]
NegInf == [k |-> "ninf", n |-> -1, d |-> 1]
None == [k |-> "none", n |-> 0, d |-> 1]

Abs(x) == IF x < 0 THEN -x ELSE x

RECURSIVE GCD(_, _)
GCD(a, b) == IF b = 0 THEN a ELSE GCD(b, a % b)

\* the rational n/d (d # 0) in lowest terms
Num(n, d) ==
    LET g == GCD(Abs(n), Abs(d))
        s == IF d < 0 THEN -1 ELSE 1
    IN  [k |-> "num", n |-> (s * n) \div g, d |-> (s * d) \div g]

IntV(i) == Num(i, 1)

\* pd.isna(value)
IsNa(v) == v.k \in {"nan", "none"}

\* a / b (numpy: x/0 is +-inf, 0/0 and inf/inf are NaN)
FDiv(a, b) ==
    IF a.k = "nan" \/ b.k = "nan" THEN NaN
    ELSE IF a.k = "num" /\ b.k = "num"
         THEN IF b.n = 0
              THEN IF a.n > 0 THEN PosInf ELSE IF a.n < 0 THEN NegInf ELSE NaN
              ELSE Num(a.n * b.d, a.d * b.n)
    ELSE IF a.k = "num" THEN IntV(0)
    ELSE IF b.k # "num" THEN NaN
    ELSE IF b.n >= 0 THEN a
    ELSE IF a.k = "inf" THEN NegInf ELSE PosInf

\* a + b
FAdd(a, b) ==
    IF a.k = "nan" \/ b.k = "nan" THEN NaN
    ELSE IF a.k = "num" /\ b.k = "num" THEN Num(a.n * b.d + b.n * a.d, a.d * b.d)
    ELSE IF a.k = "num" THEN b
    ELSE IF b.k = "num" \/ a.k = b.k THEN a
    ELSE NaN

\* a * b for finite or NaN operands
FMul(a, b) ==
    IF a.k # "num" \/ b.k # "num" THEN NaN ELSE Num(a.n * b.n, a.d * b.d)

\* a - b for a finite b
FSub(a, b) == FAdd(a, Num(-b.n, b.d))

\* a - 1
SubOne(a) == FSub(a, IntV(1))

\* a < b (false when either side is NaN)
FLess(a, b) ==
    IF a.k = "nan" \/ b.k = "nan" THEN FALSE
    ELSE IF a.k = "ninf" THEN b.k # "ninf"
    ELSE IF a.k = "inf" THEN FALSE
    ELSE IF b.k = "inf" THEN TRUE
    ELSE IF b.k = "ninf" THEN FALSE
    ELSE a.n * b.d < b.n * a.d

\* a > b
FGreater(a, b) == FLess(b, a)

RECURSIVE Pow10(_)
Pow10(p) == IF p = 0 THEN 1 ELSE 10 * Pow10(p - 1)

\* <<q, r>> with n * 10^places = q * d + r and 0 <= r < d, digit by digit
RECURSIVE ScaledDiv(_, _, _)
ScaledDiv(n, d, places) ==
    IF places = 0 THEN <<n \div d, n % d>>
    ELSE LET p == ScaledDiv(n, d, places - 1)
         IN  <<p[1] * 10 + ((p[2] * 10) \div d), (p[2] * 10) % d>>

\* round(float(v), places): half to even; an infinity stays an infinity
Round(v, places) ==
    IF v.k # "num" THEN v
    ELSE LET s == IF v.n < 0 THEN -1 ELSE 1
             qr == ScaledDiv(Abs(v.n), v.d, places)
             up == 2 * qr[2] > v.d \/ (2 * qr[2] = v.d /\ qr[1] % 2 = 1)
         IN  Num(s * (IF up THEN qr[1] + 1 ELSE qr[1]), Pow10(places))

-----------------------------------------------------------------------------
(* The table *)

\* the index columns: every column but the first, the date column
IndexCols == {data.columns[i] : i \in 2..Len(data.columns)}

\* index_name in self.data.columns
InColumns(name) == \E i \in 1..Len(data.columns) : data.columns[i] = name

\* daily values
Vals == {NaN} \cup {IntV(i) : i \in 0..MaxVal}


\* the (year, month) bucket of a row
Bucket(row) == <<row.date[1], row.date[2]>>

\* a faulty variant of KeyLess: the month decides before the year
KeyLessByMonth(a, b) == a[2] < b[2] \/ (a[2] = b[2] /\ a[1] < b[1])

KeyLess(a, b) == a[1] < b[1] \/ (a[1] = b[1] /\ a[2] < b[2])

\* the members of the set of positions I, in ascending order
Ascending(I) ==
    [k \in 1..Cardinality(I) |->
        CHOOSE j \in I : Cardinality({h \in I : h < j}) = k - 1]

\* the group keys of groupby(['Year', 'Month']), which sorts them
SortKeys(S) ==
    [k \in 1..Cardinality(S) |->
        CHOOSE a \in S : Cardinality({b \in S : KeyLess(b, a)}) = k - 1]

\* the values of column name in the rows i.. whose bucket is key, NaN dropped
BucketVals(rows, name, key, i) ==
    LET at == Ascending({j \in i..Len(rows) :
                            Bucket(rows[j]) = key /\ ~IsNa(rows[j].v[name])})
    IN  [k \in 1..Len(at) |-> rows[at[k]].v[name]]

\* the sum of xs[lo..hi], by halves
RECURSIVE SumBetween(_, _, _)
SumBetween(xs, lo, hi) ==
    IF lo > hi THEN IntV(0)
    ELSE IF lo = hi THEN xs[lo]
    ELSE FAdd(SumBetween(xs, lo, (lo + hi) \div 2),
              SumBetween(xs, ((lo + hi) \div 2) + 1, hi))

Sum(xs, i) == SumBetween(xs, i, Len(xs))

\* mean() of the non-NaN values xs: NaN when there is none
Mean(xs) == IF Len(xs) = 0 THEN NaN ELSE FDiv(Sum(xs, 1), IntV(Len(xs)))

\* df.groupby(['Year', 'Month'])[index_name].mean()
MonthlyMean(rows, name) ==
    LET keys == SortKeys({Bucket(rows[i]) : i \in 1..Len(rows)})
    IN  [j \in 1..Len(keys) |->
            [key |-> keys[j], val |-> Mean(BucketVals(rows, name, keys[j], 1))]]

-----------------------------------------------------------------------------
(* The cache and the monthly aggregator *)

RECURSIVE JoinColon(_)
JoinColon(args) ==
    IF Len(args) = 0 THEN ""
    ELSE IF Len(args) = 1 THEN args[1]
    ELSE args[1] \o ":" \o JoinColon(Tail(args))

\* a faulty variant of GetCacheKey: the index name is left out of the key
GetCacheKeyNoIndex(index_name, operation, args) ==
    operation \o ":" \o JoinColon(args)

\* _get_cache_key
GetCacheKey(index_name, operation, args) ==
    index_name \o ":" \o operation \o ":" \o JoinColon(args)

NoSeries == [id |-> 0, of |-> "", s |-> <<>>]

\* a faulty variant of CalcMonthlyAverage: the cache is never consulted, every
\* call computes the series and stores it
CalcMonthlyAverageNoCheck(c, n, name) ==
    IF ~(\E i \in 1..Len(data.columns) : data.columns[i] = name)
    THEN [status |-> "KeyError", obj |-> [id |-> 0, of |-> "", s |-> <<>>],
          hit |-> FALSE, cache |-> c, computed |-> n]
    ELSE IF name = "DATE"
    THEN [status |-> "AttributeError", obj |-> [id |-> 0, of |-> "", s |-> <<>>],
          hit |-> FALSE, cache |-> c, computed |-> n]
    ELSE LET obj == [id |-> n[name] + 1, of |-> name,
                     s |-> MonthlyMean(data.rows, name)]
         IN  [status |-> "ok", obj |-> obj, hit |-> FALSE,
              cache |-> ((name \o ":monthly_avg:") :> obj) @@ c,
              computed |-> [n EXCEPT ![name] = @ + 1]]

\* calculate_monthly_average on the cache c and the computation counts n:
\* the outcome, the series object returned, and the cache and counts left.
\* A series object is [id, of, s]: s the buckets, and (of, id) names the
\* computation that built the object, so that equal ids are one object.
\* hit tells that the object came out of the cache.
CalcMonthlyAverage(c, n, name) ==
    LET key == GetCacheKey(name, "monthly_avg", <<>>)
    IN  IF key \in DOMAIN c
        THEN [status |-> "ok", obj |-> c[key], hit |-> TRUE, cache |-> c,
              computed |-> n]
        ELSE IF ~InColumns(name)
        THEN [status |-> "KeyError", obj |-> NoSeries, hit |-> FALSE, cache |-> c,
              computed |-> n]
        ELSE IF name = "DATE"
        THEN [status |-> "AttributeError", obj |-> NoSeries, hit |-> FALSE,
              cache |-> c, computed |-> n]
        ELSE LET obj == [id |-> n[name] + 1, of |-> name,
                         s |-> MonthlyMean(data.rows, name)]
             IN  [status |-> "ok", obj |-> obj, hit |-> FALSE,
                  cache |-> (key :> obj) @@ c,
                  computed |-> [n EXCEPT ![name] = @ + 1]]

-----------------------------------------------------------------------------
(* The return calculator and the matrix builder *)

\* a faulty variant of MomReturns: the ratio, without the 1 taken off
MomReturnsRatio(s) ==
    [i \in 1..Len(s) |->
        [key |-> s[i].key,
         val |-> FDiv(s[i].val, IF i = 1 THEN NaN ELSE s[i - 1].val)]]

\* calculate_mom_returns: (monthly_avg / monthly_avg.shift(1)) - 1
MomReturns(s) ==
    [i \in 1..Len(s) |->
        [key |-> s[i].key,
         val |-> SubOne(FDiv(s[i].val, IF i = 1 THEN NaN ELSE s[i - 1].val))]]

\* the nested dict year_str -> month_str -> cell of the first n entries of
\* the series of cells s (its keys are distinct)
ToMatrix(s, n) ==
    [ys \in {ToString(s[i].key[1]) : i \in 1..n} |->
        [ms \in {ToString(s[i].key[2]) :
                    i \in {j \in 1..n : ToString(s[j].key[1]) = ys}} |->
            s[CHOOSE i \in 1..n : /\ ToString(s[i].key[1]) = ys
                                  /\ ToString(s[i].key[2]) = ms].val]]

\* None for NaN, else the value rounded
Cell(v, places) == IF IsNa(v) THEN None ELSE Round(v, places)

RoundedMatrix(s, places) ==
    ToMatrix([i \in 1..Len(s) |-> [key |-> s[i].key, val |-> Cell(s[i].val, places)]],
             Len(s))

-----------------------------------------------------------------------------
(* The service operations, as functions of the cache c and the counts n.   *)
(* Each yields [status, obj, matrix, scalar, cache, computed]: status is   *)
(* "ok" or the exception raised, and a raised call returns nothing.        *)

Out(status, obj, matrix, scalar, c, n) ==
    [status |-> status, obj |-> obj, hit |-> FALSE, matrix |-> matrix,
     scalar |-> scalar, cache |-> c, computed |-> n]

Raise(status, c, n) == Out(status, NoSeries, <<>>, None, c, n)

\* raise ValueError(f"Index '{index_name}' not found in data")
UnknownIndex == "ValueError: Index not found in data"
\* raise ValueError(f"Invalid forward period: {forward_period}")
InvalidPeriod == "ValueError: Invalid forward period"

\* calculate_monthly_average as a service operation
MonthlyAverageOp(c, n, name) ==
    LET a == CalcMonthlyAverage(c, n, name)
    IN  [Out(a.status, a.obj, <<>>, None, a.cache, a.computed) EXCEPT !.hit = a.hit]

\* calculate_mom_returns as a service operation, on a series object the
\* caller holds
MomReturnsOp(c, n, obj) ==
    Out("ok", [id |-> 0, of |-> obj.of, s |-> MomReturns(obj.s)], <<>>, None, c, n)

\* generate_heatmap_matrix
GenerateHeatmapMatrix(c, n, name) ==
    IF ~InColumns(name) THEN Raise(UnknownIndex, c, n)
    ELSE LET a == CalcMonthlyAverage(c, n, name)
         IN  IF a.status # "ok" THEN Raise(a.status, a.cache, a.computed)
             ELSE Out("ok", NoSeries, RoundedMatrix(MomReturns(a.obj.s), 4), None,
                      a.cache, a.computed)

\* generate_monthly_price_matrix
GenerateMonthlyPriceMatrix(c, n, name) ==
    IF ~InColumns(name) THEN Raise(UnknownIndex, c, n)
    ELSE LET a == CalcMonthlyAverage(c, n, name)
         IN  IF a.status # "ok" THEN Raise(a.status, a.cache, a.computed)
             ELSE Out("ok", NoSeries, RoundedMatrix(a.obj.s, 2), None,
                      a.cache, a.computed)

\* the non-NaN values of the entries i.. of s whose year is after year
RecentVals(s, year, i) ==
    LET at == Ascending({j \in i..Len(s) : s[j].key[1] > year /\ ~IsNa(s[j].val)})
    IN  [k \in 1..Len(at) |-> s[at[k]].val]

\* calculate_avg_monthly_profits_3y
CalculateAvgMonthlyProfits3y(c, n, name) ==
    IF ~InColumns(name) THEN Raise(UnknownIndex, c, n)
    ELSE LET a == CalcMonthlyAverage(c, n, name)
         IN  IF a.status # "ok" THEN Raise(a.status, a.cache, a.computed)
             ELSE LET mom == MomReturns(a.obj.s)
                      three_years_ago == mom[Len(mom)].key[1] - 3
                      avg == Mean(RecentVals(mom, three_years_ago, 1))
                  IN  IF Len(mom) = 0
                      THEN Out("ok", NoSeries, <<>>, None, a.cache, a.computed)
                      ELSE Out("ok", NoSeries, <<>>,
                               IF IsNa(avg) THEN None ELSE Round(avg, 6),
                               a.cache, a.computed)

\* df['Year'].max(), over the rows i..
MaxYear(rows, i) ==
    CHOOSE y \in {rows[j].date[1] : j \in i..Len(rows)} :
        \A j \in i..Len(rows) : rows[j].date[1] <= y

\* df[df['Year'] > four_years_ago][col].dropna(), from row i on
WindowVals(rows, col, four_years_ago, i) ==
    LET at == Ascending({j \in i..Len(rows) :
                            rows[j].date[1] > four_years_ago /\ ~IsNa(rows[j].v[col])})
    IN  [k \in 1..Len(at) |-> rows[at[k]].v[col]]

\* (values.iloc[-1] / values.iloc[0]) - 1
CumulativeReturn(values) == SubOne(FDiv(values[Len(values)], values[1]))

\* all_returns: the cumulative return of every column from i on that has
\* two observations in the window
RECURSIVE AllReturns(_, _, _)
AllReturns(rows, four_years_ago, i) ==
    IF i > Len(data.columns) THEN <<>>
    ELSE (IF data.columns[i] = "DATE" THEN <<>>
          ELSE LET col_values == WindowVals(rows, data.columns[i], four_years_ago, 1)
               IN  IF Len(col_values) >= 2
                   THEN <<CumulativeReturn(col_values)>> ELSE <<>>)
         \o AllReturns(rows, four_years_ago, i + 1)

\* a faulty variant of CountLess: an equal return counts too
RECURSIVE CountLessOrEqual(_, _, _)
CountLessOrEqual(xs, v, i) ==
    IF i > Len(xs) THEN 0
    ELSE (IF FLess(xs[i], v) \/ xs[i] = v THEN 1 ELSE 0)
         + CountLessOrEqual(xs, v, i + 1)

\* sum(1 for r in xs if r < v), from i on
RECURSIVE CountLess(_, _, _)
CountLess(xs, v, i) ==
    IF i > Len(xs) THEN 0
    ELSE (IF FLess(xs[i], v) THEN 1 ELSE 0) + CountLess(xs, v, i + 1)

\* the value calculate_rank_percentile_4y returns for a column of the table
RankPercentile(rows, name) ==
    LET four_years_ago == MaxYear(rows, 1) - 4
        values == WindowVals(rows, name, four_years_ago, 1)
        all_returns == AllReturns(rows, four_years_ago, 1)
    IN  IF Len(values) < 2 THEN None
        ELSE IF Len(all_returns) = 0 THEN None
        ELSE Round(FMul(FDiv(IntV(CountLess(all_returns, CumulativeReturn(values), 1)),
                             IntV(Len(all_returns))),
                        IntV(100)), 2)

\* calculate_rank_percentile_4y
CalculateRankPercentile4y(c, n, name) ==
    IF ~InColumns(name) THEN Raise(UnknownIndex, c, n)
    ELSE IF name = "DATE" THEN Raise("AttributeError", c, n)
    ELSE Out("ok", NoSeries, <<>>, RankPercentile(data.rows, name), c, n)

\* calculate_inverse_rank_percentile
CalculateInverseRankPercentile(c, n, name) ==
    LET r == CalculateRankPercentile4y(c, n, name)
    IN  IF r.status # "ok" \/ r.scalar = None THEN r
        ELSE Out("ok", NoSeries, <<>>, Round(FSub(IntV(100), r.scalar), 2),
                 c, n)

\* all_indices_returns after the columns i..: the month-over-month series of
\* every index column, each obtained through calculate_monthly_average (a
\* column whose computation raises is skipped), with the cache left behind
RECURSIVE AllIndicesReturns(_, _, _, _)
AllIndicesReturns(c, n, i, acc) ==
    IF i > Len(data.columns) THEN [returns |-> acc, cache |-> c, computed |-> n]
    ELSE IF data.columns[i] = "DATE" THEN AllIndicesReturns(c, n, i + 1, acc)
    ELSE LET a == CalcMonthlyAverage(c, n, data.columns[i])
         IN  IF a.status # "ok"
             THEN AllIndicesReturns(a.cache, a.computed, i + 1, acc)
             ELSE AllIndicesReturns(a.cache, a.computed, i + 1,
                                    (data.columns[i] :> MomReturns(a.obj.s)) @@ acc)

\* same_month_returns: the non-NaN returns in bucket idx of the columns i..
\* other than index_name
RECURSIVE SameMonthReturns(_, _, _, _)
SameMonthReturns(all, index_name, idx, i) ==
    IF i > Len(data.columns) THEN <<>>
    ELSE (IF data.columns[i] \notin DOMAIN all \/ data.columns[i] = index_name THEN <<>>
          ELSE LET col_returns == all[data.columns[i]]
                   at == {j \in 1..Len(col_returns) : col_returns[j].key = idx}
               IN  IF at = {} THEN <<>>
                   ELSE LET col_value == col_returns[CHOOSE j \in at : TRUE].val
                        IN  IF IsNa(col_value) THEN <<>> ELSE <<col_value>>)
         \o SameMonthReturns(all, index_name, idx, i + 1)

\* a faulty variant of CountGreater: an equal return counts too
RECURSIVE CountGreaterOrEqual(_, _, _)
CountGreaterOrEqual(xs, v, i) ==
    IF i > Len(xs) THEN 0
    ELSE (IF FGreater(xs[i], v) \/ xs[i] = v THEN 1 ELSE 0)
         + CountGreaterOrEqual(xs, v, i + 1)

\* sum(1 for r in xs if r > v), from i on
RECURSIVE CountGreater(_, _, _)
CountGreater(xs, v, i) ==
    IF i > Len(xs) THEN 0
    ELSE (IF FGreater(xs[i], v) THEN 1 ELSE 0) + CountGreater(xs, v, i + 1)

\* the cell of rank_matrix for the target's return value in bucket idx
RankCell(all, index_name, idx, value) ==
    IF IsNa(value) THEN None
    ELSE LET same_month_returns == SameMonthReturns(all, index_name, idx, 1)
         IN  IF Len(same_month_returns) > 0
             THEN IntV(CountGreater(same_month_returns, value, 1) + 1)
             ELSE None

\* calculate_monthly_rank_position
CalculateMonthlyRankPosition(c, n, name) ==
    IF ~InColumns(name) THEN Raise(UnknownIndex, c, n)
    ELSE LET a == CalcMonthlyAverage(c, n, name)
         IN  IF a.status # "ok" THEN Raise(a.status, a.cache, a.computed)
             ELSE LET mom == MomReturns(a.obj.s)
                      all == AllIndicesReturns(a.cache, a.computed, 1, <<>>)
                  IN  Out("ok", NoSeries,
                          ToMatrix([i \in 1..Len(mom) |->
                                       [key |-> mom[i].key,
                                        val |-> RankCell(all.returns, name,
                                                         mom[i].key, mom[i].val)]],
                                   Len(mom)),
                          None, all.cache, all.computed)

\* period_map
PeriodMap ==
    [p \in {"1M", "3M", "6M", "1Y", "2Y", "3Y", "4Y"} |->
        CASE p = "1M" -> 1 [] p = "3M" -> 3 [] p = "6M" -> 6 [] p = "1Y" -> 12
          [] p = "2Y" -> 24 [] p = "3Y" -> 36 [] p = "4Y" -> 48]

\* a faulty variant of ForwardCell: past the end of the series the last
\* bucket stands in for the future one
ForwardCellClamped(monthly_list, i, months_forward) ==
    LET future_idx == IF i + months_forward <= Len(monthly_list)
                      THEN i + months_forward ELSE Len(monthly_list)
        current_value == monthly_list[i].val
        future_value == monthly_list[future_idx].val
    IN  IF ~IsNa(current_value) /\ ~IsNa(future_value) /\ current_value # IntV(0)
        THEN Round(SubOne(FDiv(future_value, current_value)), 4)
        ELSE None

\* the cell of forward_returns for position i of monthly_list
ForwardCell(monthly_list, i, months_forward) ==
    LET future_idx == i + months_forward
        current_value == monthly_list[i].val
    IN  IF future_idx <= Len(monthly_list)
        THEN LET future_value == monthly_list[future_idx].val
             IN  IF ~IsNa(current_value) /\ ~IsNa(future_value)
                    /\ current_value # IntV(0)
                 THEN Round(SubOne(FDiv(future_value, current_value)), 4)
                 ELSE None
        ELSE None

\* a faulty variant of calculate_forward_returns: a token that is no key of
\* period_map is taken for one month
CalculateForwardReturnsDefaultPeriod(c, n, name, forward_period) ==
    IF ~InColumns(name) THEN Raise(UnknownIndex, c, n)
    ELSE LET months_forward == IF forward_period \in DOMAIN PeriodMap
                               THEN PeriodMap[forward_period] ELSE 1
             a == CalcMonthlyAverage(c, n, name)
         IN  IF a.status # "ok" THEN Raise(a.status, a.cache, a.computed)
             ELSE LET monthly_list == a.obj.s
                  IN  Out("ok", NoSeries,
                          ToMatrix([i \in 1..Len(monthly_list) |->
                                       [key |-> monthly_list[i].key,
                                        val |-> ForwardCell(monthly_list, i,
                                                            months_forward)]],
                                   Len(monthly_list)),
                          None, a.cache, a.computed)

\* calculate_forward_returns
CalculateForwardReturns(c, n, name, forward_period) ==
    IF ~InColumns(name) THEN Raise(UnknownIndex, c, n)
    ELSE IF forward_period \notin DOMAIN PeriodMap THEN Raise(InvalidPeriod, c, n)
    ELSE LET a == CalcMonthlyAverage(c, n, name)
         IN  IF a.status # "ok" THEN Raise(a.status, a.cache, a.computed)
             ELSE LET monthly_list == a.obj.s
                  IN  Out("ok", NoSeries,
                          ToMatrix([i \in 1..Len(monthly_list) |->
                                       [key |-> monthly_list[i].key,
                                        val |-> ForwardCell(monthly_list, i,
                                                            PeriodMap[forward_period])]],
                                   Len(monthly_list)),
                          None, a.cache, a.computed)

-----------------------------------------------------------------------------
(* The tables the service is constructed with *)

\* the table with the index columns cols, a row at each date of dates and
\* the row values vals
Table(cols, dates, vals) ==
    [columns |-> <<"DATE">> \o cols,
     rows |-> [i \in 1..Len(dates) |-> [date |-> dates[i], v |-> vals[i]]]]

\* two indices over two days: two days of one month, two months with a year
\* boundary and a calendar month without rows between them, and a row more
\* than four years older than the latest
ShortDates ==
    { << <<2020, 12, 1>>, <<2020, 12, 2>> >>,
      << <<2020, 12, 1>>, <<2021, 2, 1>> >>,
      << <<2016, 12, 30>>, <<2021, 1, 4>> >> }

ShortTables ==
    {Table(<<"A", "B">>, dates, vals) :
        dates \in ShortDates, vals \in [1..2 -> [{"A", "B"} -> Vals]]}

\* three indices over two consecutive months, every index starting at 1
WideTables ==
    {Table(<<"A", "B", "C">>, << <<2020, 12, 1>>, <<2021, 1, 4>> >>,
           <<[c \in {"A", "B", "C"} |-> IntV(1)], last>>) :
        last \in [{"A", "B", "C"} -> Vals]}

\* the first day of the k-th month from November 2020 on
MonthStart(k) == <<2020 + ((10 + k) \div 12), ((10 + k) % 12) + 1, 1>>

\* one index over LongLen consecutive months, one row a month: the values
\* v+1, v+2, ... with at most one month p holding the value hole instead
LongTables ==
    {Table(<<"A">>, [i \in 1..LongLen |-> MonthStart(i - 1)],
           [i \in 1..LongLen |-> [c \in {"A"} |-> IF i = p THEN hole ELSE IntV(v + i)]]) :
        v \in 1..MaxVal, p \in 0..LongLen, hole \in {NaN, IntV(0)}}

\* the longest horizon of period_map
MaxHorizon == PeriodMap["4Y"]

\* one index over one month more than the longest horizon, one row a month,
\* the value starting at 1 and going up by one in the month that lies a
\* horizon of period_map after the first
DeepTables ==
    {Table(<<"A">>, [i \in 1..(MaxHorizon + 1) |-> MonthStart(i - 1)],
           [i \in 1..(MaxHorizon + 1) |->
               [c \in {"A"} |->
                   IntV(1 + Cardinality({p \in DOMAIN PeriodMap :
                                            PeriodMap[p] < i}))]])}

Tables == ShortTables \cup WideTables \cup LongTables \cup DeepTables

-----------------------------------------------------------------------------
(* The state machine: one service instance and its caller *)

\* the names and horizon tokens a caller may pass
Names == {"DATE", "A", "B", "C"}
\* the tokens of period_map and tokens that are no key of it: a horizon that
\* is not offered, a key in lower case, a number of months, the empty string
Periods == DOMAIN PeriodMap \cup {"5Y", "1m", "12", ""}

NoResult ==
    [op |-> "none", name |-> "", period |-> "", status |-> "ok",
     obj |-> NoSeries, hit |-> FALSE, matrix |-> <<>>, scalar |-> None]

\* the concurrent callers, and a caller that is in no call
Callers == 1..NumCallers
Idle == [pc |-> "idle", plan |-> <<>>, at |-> 1, got |-> NoSeries, local |-> NoSeries]

\* HeatmapService(data)
Constructed ==
    /\ cache = <<>>
    /\ computed = [c \in IndexCols |-> 0]
    /\ result = NoResult
    /\ callers = [t \in Callers |-> Idle]

Init == data \in Tables /\ Constructed

\* what the caller holds after the call op(name, period) came out as out
Returned(op, name, period, out) ==
    [op |-> op, name |-> name, period |-> period, status |-> out.status,
     obj |-> out.obj, hit |-> out.hit, matrix |-> out.matrix,
     scalar |-> out.scalar]

\* a call of calculate_monthly_average
CallMonthlyAverage ==
    \E name \in Names :
        LET out == MonthlyAverageOp(cache, computed, name)
        IN  /\ result = NoResult
            /\ cache' = out.cache
            /\ computed' = out.computed
            /\ result' = Returned("calculate_monthly_average", name, "", out)
            /\ UNCHANGED <<data, callers>>

\* a call of calculate_mom_returns with a monthly series the service returned
CallMomReturns ==
    \E key \in DOMAIN cache :
        LET out == MomReturnsOp(cache, computed, cache[key])
        IN  /\ result = NoResult
            /\ cache' = out.cache
            /\ computed' = out.computed
            /\ result' = Returned("calculate_mom_returns", cache[key].of, "", out)
            /\ UNCHANGED <<data, callers>>

\* a call of generate_heatmap_matrix
CallHeatmapMatrix ==
    \E name \in Names :
        LET out == GenerateHeatmapMatrix(cache, computed, name)
        IN  /\ result = NoResult
            /\ cache' = out.cache
            /\ computed' = out.computed
            /\ result' = Returned("generate_heatmap_matrix", name, "", out)
            /\ UNCHANGED <<data, callers>>

\* a call of generate_monthly_price_matrix
CallMonthlyPriceMatrix ==
    \E name \in Names :
        LET out == GenerateMonthlyPriceMatrix(cache, computed, name)
        IN  /\ result = NoResult
            /\ cache' = out.cache
            /\ computed' = out.computed
            /\ result' = Returned("generate_monthly_price_matrix", name, "", out)
            /\ UNCHANGED <<data, callers>>

\* a call of calculate_avg_monthly_profits_3y
CallAvgMonthlyProfits3y ==
    \E name \in Names :
        LET out == CalculateAvgMonthlyProfits3y(cache, computed, name)
        IN  /\ result = NoResult
            /\ cache' = out.cache
            /\ computed' = out.computed
            /\ result' = Returned("calculate_avg_monthly_profits_3y", name, "", out)
            /\ UNCHANGED <<data, callers>>

\* a call of calculate_rank_percentile_4y
CallRankPercentile4y ==
    \E name \in Names :
        LET out == CalculateRankPercentile4y(cache, computed, name)
        IN  /\ result = NoResult
            /\ cache' = out.cache
            /\ computed' = out.computed
            /\ result' = Returned("calculate_rank_percentile_4y", name, "", out)
            /\ UNCHANGED <<data, callers>>

\* a call of calculate_inverse_rank_percentile
CallInverseRankPercentile ==
    \E name \in Names :
        LET out == CalculateInverseRankPercentile(cache, computed, name)
        IN  /\ result = NoResult
            /\ cache' = out.cache
            /\ computed' = out.computed
            /\ result' = Returned("calculate_inverse_rank_percentile", name, "", out)
            /\ UNCHANGED <<data, callers>>

\* a call of calculate_monthly_rank_position
CallMonthlyRankPosition ==
    \E name \in Names :
        LET out == CalculateMonthlyRankPosition(cache, computed, name)
        IN  /\ result = NoResult
            /\ cache' = out.cache
            /\ computed' = out.computed
            /\ result' = Returned("calculate_monthly_rank_position", name, "", out)
            /\ UNCHANGED <<data, callers>>

\* a call of calculate_forward_returns
CallForwardReturns ==
    \E name \in Names, period \in Periods :
        LET out == CalculateForwardReturns(cache, computed, name, period)
        IN  /\ result = NoResult
            /\ cache' = out.cache
            /\ computed' = out.computed
            /\ result' = Returned("calculate_forward_returns", name, period, out)
            /\ UNCHANGED <<data, callers>>

\* the forward_period of a request: none (or empty), a key of period_map, a
\* token that is no key of it
RequestPeriods == {"", "1M", "5Y"}

\* csv_loader.get_index_columns(): the names of the index columns
GetIndexColumns == IndexCols

\* HTTPException(status_code=404, detail="Index ... not found ...")
NotFound == "HTTPException 404: Index not found"
\* HTTPException(status_code=500, detail=f"Error generating heatmap: {str(e)}")
ServerError(e) == "HTTPException 500: Error generating heatmap: " \o e

\* what get_heatmap answers: an HTTPException, or the HeatmapResponse
Answer(index_name, forward_period, status, response) ==
    [op |-> "get_heatmap", name |-> index_name, period |-> forward_period,
     status |-> status, obj |-> NoSeries, hit |-> FALSE,
     matrix |-> IF status = "ok" THEN response.heatmap ELSE <<>>,
     scalar |-> None, response |-> response]

\* a request GET /heatmap/{index_name}?forward_period=... for a name that is
\* no index
GetHeatmapNotFound ==
    \E index_name \in Names, forward_period \in RequestPeriods :
        /\ result = NoResult
        /\ index_name \notin GetIndexColumns
        /\ result' = Answer(index_name, forward_period, NotFound, <<>>)
        /\ UNCHANGED <<data, cache, computed, callers>>

\* a request GET /heatmap/{index_name}?forward_period=... for an index: the
\* calls on the service one after the other, each starting from the cache
\* the one before left; an empty forward_period is falsy and selects the
\* month-over-month heatmap; the first exception ends the request
GetHeatmap ==
    \E index_name \in Names, forward_period \in RequestPeriods :
        /\ result = NoResult
        /\ index_name \in GetIndexColumns
        /\ \E heatmap_data \in
                 {IF forward_period # ""
                  THEN CalculateForwardReturns(cache, computed, index_name,
                                               forward_period)
                  ELSE GenerateHeatmapMatrix(cache, computed, index_name)} :
              IF heatmap_data.status # "ok"
              THEN /\ cache' = heatmap_data.cache
                   /\ computed' = heatmap_data.computed
                   /\ result' = Answer(index_name, forward_period,
                                       ServerError(heatmap_data.status), <<>>)
              ELSE
              \E monthly_price \in
                    {GenerateMonthlyPriceMatrix(heatmap_data.cache,
                                                heatmap_data.computed, index_name)} :
              \E monthly_profits \in
                    {GenerateHeatmapMatrix(monthly_price.cache,
                                           monthly_price.computed, index_name)} :
              \E avg_monthly_profits_3y \in
                    {CalculateAvgMonthlyProfits3y(monthly_profits.cache,
                                                  monthly_profits.computed,
                                                  index_name)} :
              \E rank_percentile_4y \in
                    {CalculateRankPercentile4y(avg_monthly_profits_3y.cache,
                                               avg_monthly_profits_3y.computed,
                                               index_name)} :
              \E inverse_rank_percentile \in
                    {CalculateInverseRankPercentile(rank_percentile_4y.cache,
                                                    rank_percentile_4y.computed,
                                                    index_name)} :
              \E monthly_rank_percentile \in
                    {CalculateMonthlyRankPosition(inverse_rank_percentile.cache,
                                                  inverse_rank_percentile.computed,
                                                  index_name)} :
                 /\ cache' = monthly_rank_percentile.cache
                 /\ computed' = monthly_rank_percentile.computed
                 /\ result' =
                       Answer(index_name, forward_period, "ok",
                              [index |-> index_name,
                               heatmap |-> heatmap_data.matrix,
                               monthly_price |-> monthly_price.matrix,
                               monthly_profits |-> monthly_profits.matrix,
                               avg_monthly_profits_3y |->
                                   avg_monthly_profits_3y.scalar,
                               rank_percentile_4y |-> rank_percentile_4y.scalar,
                               inverse_rank_percentile |->
                                   inverse_rank_percentile.scalar,
                               monthly_rank_percentile |->
                                   monthly_rank_percentile.matrix])
        /\ UNCHANGED <<data, callers>>

\* the caller is done with what the call returned (or raised)
Return ==
    /\ result # NoResult
    /\ result' = NoResult
    /\ UNCHANGED <<data, cache, computed, callers>>

Next ==
    \/ CallMonthlyAverage
    \/ CallMomReturns
    \/ CallHeatmapMatrix
    \/ CallMonthlyPriceMatrix
    \/ CallAvgMonthlyProfits3y
    \/ CallRankPercentile4y
    \/ CallInverseRankPercentile
    \/ CallMonthlyRankPosition
    \/ CallForwardReturns
    \/ GetHeatmapNotFound
    \/ GetHeatmap
    \/ Return

Spec == Init /\ [][Next]_vars

-----------------------------------------------------------------------------
(* Concurrent callers.  Were requests served on several threads, the calls  *)
(* of calculate_monthly_average on the one service would interleave at its  *)
(* cache check, its computation and its cache write (each a dict operation  *)
(* or a computation on a private frame).  A caller runs an operation as its *)
(* plan, the columns it asks calculate_monthly_average for in turn, and     *)
(* holds the series objects it got.                                         *)

\* two indices over two months, ending at MaxVal, starting there or absent
ConcTables ==
    {Table(<<"A", "B">>, << <<2020, 12, 1>>, <<2021, 2, 1>> >>,
           <<first, [c \in {"A", "B"} |-> IntV(MaxVal)]>>) :
        first \in [{"A", "B"} -> {NaN, IntV(MaxVal)}]}

InitConc == data \in ConcTables /\ Constructed

Operations ==
    {"calculate_monthly_average", "calculate_mom_returns", "generate_heatmap_matrix",
     "generate_monthly_price_matrix", "calculate_avg_monthly_profits_3y",
     "calculate_rank_percentile_4y", "calculate_inverse_rank_percentile",
     "calculate_monthly_rank_position", "calculate_forward_returns"}

\* the index columns from position i on, in column order
RECURSIVE IndexColumnsFrom(_)
IndexColumnsFrom(i) ==
    IF i > Len(data.columns) THEN <<>>
    ELSE (IF data.columns[i] = "DATE" THEN <<>> ELSE <<data.columns[i]>>)
         \o IndexColumnsFrom(i + 1)

\* what the operation does before and between its calls of
\* calculate_monthly_average: whether it raises at once, and the columns it
\* asks for
Plan(op, name, period) ==
    IF op = "calculate_monthly_average" THEN [raises |-> FALSE, plan |-> <<name>>]
    ELSE IF op = "calculate_mom_returns" THEN [raises |-> FALSE, plan |-> <<>>]
    ELSE IF ~InColumns(name) THEN [raises |-> TRUE, plan |-> <<>>]
    ELSE IF op \in {"calculate_rank_percentile_4y", "calculate_inverse_rank_percentile"}
    THEN [raises |-> name = "DATE", plan |-> <<>>]
    ELSE IF op = "calculate_forward_returns" /\ period \notin DOMAIN PeriodMap
    THEN [raises |-> TRUE, plan |-> <<>>]
    ELSE IF op = "calculate_monthly_rank_position"
    THEN [raises |-> FALSE, plan |-> <<name>> \o IndexColumnsFrom(1)]
    ELSE [raises |-> FALSE, plan |-> <<name>>]

\* the caller after the call of calculate_monthly_average it was in returned
\* obj: on to the next column of the plan, or done
Advance(c, obj) ==
    [c EXCEPT !.got = obj, !.at = @ + 1, !.local = NoSeries,
              !.pc = IF c.at = Len(c.plan) THEN "done" ELSE "check"]

\* a caller enters an operation
ConcCall(t) ==
    \E op \in Operations, name \in Names :
      \E period \in IF op = "calculate_forward_returns" THEN Periods ELSE {""} :
        LET p == Plan(op, name, period)
        IN  /\ callers[t].pc = "idle"
            /\ ~p.raises
            /\ callers' = [callers EXCEPT ![t] =
                              [Idle EXCEPT !.plan = p.plan,
                                           !.pc = IF p.plan = <<>> THEN "done"
                                                  ELSE "check"]]
            /\ UNCHANGED <<data, cache, computed, result>>

\* if cache_key in self._cache: return self._cache[cache_key]; on a miss the
\* frame is sliced, which raises for a name that is no index column (the
\* operation then raises, or skips the column inside its try block)
ConcCheck(t) ==
    LET c == callers[t]
        name == c.plan[c.at]
        key == GetCacheKey(name, "monthly_avg", <<>>)
    IN  /\ c.pc = "check"
        /\ callers' = [callers EXCEPT ![t] =
                          IF key \in DOMAIN cache THEN Advance(c, cache[key])
                          ELSE IF ~InColumns(name) \/ name = "DATE"
                          THEN (IF c.at = 1 THEN Idle
                                ELSE [c EXCEPT !.at = @ + 1, !.got = NoSeries,
                                               !.pc = IF c.at = Len(c.plan)
                                                      THEN "done" ELSE "check"])
                          ELSE [c EXCEPT !.pc = "compute"]]
        /\ UNCHANGED <<data, cache, computed, result>>

\* monthly_avg = df.groupby(['Year', 'Month'])[index_name].mean()
ConcCompute(t) ==
    LET c == callers[t]
        name == c.plan[c.at]
    IN  /\ c.pc = "compute"
        /\ callers' = [callers EXCEPT ![t] =
                          [c EXCEPT !.pc = "write",
                                    !.local = [id |-> 0, of |-> name,
                                               s |-> MonthlyMean(data.rows, name)]]]
        /\ UNCHANGED <<data, cache, computed, result>>

\* self._cache[cache_key] = monthly_avg; return monthly_avg
ConcWrite(t) ==
    LET c == callers[t]
        key == GetCacheKey(c.plan[c.at], "monthly_avg", <<>>)
    IN  /\ c.pc = "write"
        /\ cache' = (key :> c.local) @@ cache
        /\ callers' = [callers EXCEPT ![t] = Advance(c, c.local)]
        /\ UNCHANGED <<data, computed, result>>

\* the operation returns what it derived from the series it holds
ConcReturn(t) ==
    /\ callers[t].pc = "done"
    /\ callers' = [callers EXCEPT ![t] = Idle]
    /\ UNCHANGED <<data, cache, computed, result>>

NextConc ==
    \E t \in Callers :
        \/ ConcCall(t)
        \/ ConcCheck(t)
        \/ ConcCompute(t)
        \/ ConcWrite(t)
        \/ ConcReturn(t)

SpecConc == InitConc /\ [][NextConc]_vars

-----------------------------------------------------------------------------
(* Properties *)

Ok(op) == result.op = op /\ result.status = "ok"

\* the cached monthly series of an index
MonthlyOf(name) == cache[GetCacheKey(name, "monthly_avg", <<>>)].s

\* matrix[str(year)][str(month)]
CellAt(matrix, key) == matrix[ToString(key[1])][ToString(key[2])]

Infinite(v) == v.k \in {"inf", "ninf"}

\* pandas' KeyError for a column that is not in the frame counts as an
\* unknown-index error, like the service's own ValueError
UnknownIndexErrors == {UnknownIndex, "KeyError"}

\* C1: every operation called with a name that is not an index column (the
\* date column is none) fails with the unknown-index error, returns nothing
\* and leaves no cache entry for that name.
C1_UnknownNameRaisesUnknownIndex ==
    (result.op # "none" /\ result.name \notin IndexCols) =>
        /\ result.status \in UnknownIndexErrors
        /\ result.obj = NoSeries
        /\ DOMAIN result.matrix = {}
        /\ result.scalar = None
        /\ GetCacheKey(result.name, "monthly_avg", <<>>) \notin DOMAIN cache

\* every cache entry sits under the key of the one index it was computed
\* from, and is the object of that index's first computation
CacheEntriesOwnKey ==
    /\ \A a, b \in IndexCols :
          a # b => GetCacheKey(a, "monthly_avg", <<>>) # GetCacheKey(b, "monthly_avg", <<>>)
    /\ \A k \in DOMAIN cache :
          /\ cache[k].of \in IndexCols
          /\ k = GetCacheKey(cache[k].of, "monthly_avg", <<>>)
          /\ cache[k].id = 1

\* C2: a cache entry, once written, is never overwritten or removed, entries
\* of distinct indices never share a key, and a call of
\* calculate_monthly_average for an index that has an entry returns that very
\* object and computes nothing.
C2_CacheEntriesAreFinal ==
    [][/\ CacheEntriesOwnKey'
       /\ \A k \in DOMAIN cache : k \in DOMAIN cache' /\ cache'[k] = cache[k]
       /\ \A name \in IndexCols :
            (/\ GetCacheKey(name, "monthly_avg", <<>>) \in DOMAIN cache
             /\ result'.op = "calculate_monthly_average"
             /\ result'.name = name)
            => /\ result'.status = "ok"
               /\ result'.obj = cache[GetCacheKey(name, "monthly_avg", <<>>)]
               /\ computed' = computed]_vars

\* a repeated call of calculate_monthly_average was served from the cache
C2_Witness == Ok("calculate_monthly_average") /\ result.hit

\* C3: a bucket whose previous bucket is zero or absent has an absent
\* month-over-month return; neither calculate_mom_returns nor the matrix of
\* generate_heatmap_matrix holds an infinite value.
C3_ZeroOrAbsentPreviousYieldsAbsence ==
    /\ Ok("calculate_mom_returns") =>
          LET s == MonthlyOf(result.name)
              r == result.obj.s
          IN  \A i \in 1..Len(s) :
                 /\ ~Infinite(r[i].val)
                 /\ (i > 1 /\ (IsNa(s[i - 1].val) \/ s[i - 1].val = IntV(0)))
                       => IsNa(r[i].val)
    /\ Ok("generate_heatmap_matrix") =>
          LET s == MonthlyOf(result.name)
          IN  \A i \in 1..Len(s) :
                 /\ ~Infinite(CellAt(result.matrix, s[i].key))
                 /\ (i > 1 /\ (IsNa(s[i - 1].val) \/ s[i - 1].val = IntV(0)))
                       => IsNa(CellAt(result.matrix, s[i].key))

\* C4: the forward return with a horizon of h months is absent for the last h
\* buckets of the monthly series (for every bucket when there are at most h).
C4_ForwardTailAbsent ==
    Ok("calculate_forward_returns") =>
        LET s == MonthlyOf(result.name)
            h == PeriodMap[result.period]
        IN  \A i \in 1..Len(s) :
               i > Len(s) - h => CellAt(result.matrix, s[i].key) = None

\* the horizon of one year over an eight-month series, every bucket absent
C4_Witness ==
    /\ Ok("calculate_forward_returns")
    /\ result.period = "1Y"
    /\ Len(MonthlyOf(result.name)) = LongLen
    /\ \A i \in 1..LongLen :
          CellAt(result.matrix, MonthlyOf(result.name)[i].key) = None

\* the bucket n calendar months after key
AddMonths(key, n) ==
    LET t == key[1] * 12 + (key[2] - 1) + n
    IN  <<t \div 12, (t % 12) + 1>>

\* C5: a forward return that is not absent is the change (rounded to four
\* decimals) from the bucket's value to the value of the bucket exactly N
\* calendar months later, also when calendar months have no rows.
C5_ForwardIsCalendarMonthsAhead ==
    Ok("calculate_forward_returns") =>
        LET s == MonthlyOf(result.name)
            h == PeriodMap[result.period]
        IN  \A i \in 1..Len(s) :
               LET cell == CellAt(result.matrix, s[i].key)
               IN  cell # None =>
                      \E j \in 1..Len(s) :
                         /\ s[j].key = AddMonths(s[i].key, h)
                         /\ cell = Round(SubOne(FDiv(s[j].val, s[i].val)), 4)

\* the month-over-month return of index c in the i-th bucket
MomVal(c, i) == MomReturns(MonthlyOf(c))[i].val

\* the other indices with a return in the i-th bucket
Peers(name, i) == {c \in IndexCols \ {name} : ~IsNa(MomVal(c, i))}

\* C6: the rank of a bucket is absent when the target's return is absent or no
\* other index has a return there; else it is 1 + the number of other indices
\* with a strictly greater return, an integer of 1..peers+1, and an index
\* with the same return gets the same rank.
C6_RankCountsStrictlyGreaterPeers ==
    Ok("calculate_monthly_rank_position") =>
        LET s == MonthlyOf(result.name)
        IN  \A i \in 1..Len(s) :
               LET mine == MomVal(result.name, i)
                   peers == Peers(result.name, i)
                   cell == CellAt(result.matrix, s[i].key)
               IN  IF IsNa(mine) \/ peers = {}
                   THEN cell = None
                   ELSE /\ cell = IntV(1 + Cardinality({c \in peers :
                                                          FGreater(MomVal(c, i), mine)}))
                        /\ cell.d = 1
                        /\ cell.n \in 1..(Cardinality(peers) + 1)
                        /\ \A c \in peers :
                              MomVal(c, i) = mine =>
                                 CellAt(CalculateMonthlyRankPosition(cache, computed, c).matrix,
                                        s[i].key) = cell

\* the target ties with a peer that no third index beats: both are ranked 1
C6_Witness ==
    /\ Ok("calculate_monthly_rank_position")
    /\ \E i \in 1..Len(MonthlyOf(result.name)) :
          /\ ~IsNa(MomVal(result.name, i))
          /\ Cardinality(Peers(result.name, i)) = 2
          /\ \E c \in Peers(result.name, i) : MomVal(c, i) = MomVal(result.name, i)
          /\ CellAt(result.matrix, MonthlyOf(result.name)[i].key) = IntV(1)

\* the rows of the trailing four-year window that hold a value of index c
Observed(c) ==
    LET latest == CHOOSE y \in {data.rows[i].date[1] : i \in 1..Len(data.rows)} :
                     \A i \in 1..Len(data.rows) : data.rows[i].date[1] <= y
    IN  {i \in 1..Len(data.rows) :
            data.rows[i].date[1] > latest - 4 /\ ~IsNa(data.rows[i].v[c])}

Comparable(c) == Cardinality(Observed(c)) >= 2

\* last observation over first, less one
Cumulative(c) ==
    LET first == CHOOSE i \in Observed(c) : \A j \in Observed(c) : i <= j
        last == CHOOSE i \in Observed(c) : \A j \in Observed(c) : j <= i
    IN  SubOne(FDiv(data.rows[last].v[c], data.rows[first].v[c]))

\* (other indices strictly below the target) / (comparable indices) x 100
Percentile(name) ==
    FMul(FDiv(IntV(Cardinality({c \in IndexCols \ {name} :
                                  Comparable(c) /\ FLess(Cumulative(c), Cumulative(name))})),
              IntV(Cardinality({c \in IndexCols : Comparable(c)}))),
         IntV(100))

\* C7 as stated: with two observations of the target in the window the
\* percentile returned is (others strictly below) / (comparable) x 100, with
\* fewer it is absent.
C7_PercentileUnrounded ==
    Ok("calculate_rank_percentile_4y") =>
        IF Comparable(result.name)
        THEN result.scalar = Percentile(result.name)
        ELSE result.scalar = None

\* C7 amended: the percentile returned is that quotient rounded to two
\* decimals.
C7_PercentileRoundedTo2 ==
    Ok("calculate_rank_percentile_4y") =>
        IF Comparable(result.name)
        THEN result.scalar = Round(Percentile(result.name), 2)
        ELSE result.scalar = None

\* one of three comparable indices is strictly below the target
C7_Witness ==
    /\ Ok("calculate_rank_percentile_4y")
    /\ Comparable(result.name)
    /\ Cardinality({c \in IndexCols : Comparable(c)}) = 3
    /\ result.scalar = Num(3333, 100)

AllSame(s) == \A i, j \in 1..Len(s) : s[i].val = s[j].val

\* C8 as stated: on a monthly series whose buckets all hold one value,
\* whatever number it is, calculate_mom_returns yields absence for the first
\* bucket and exactly 0 for every other.
C8_ConstantSeriesAnyValue ==
    (/\ Ok("calculate_mom_returns")
     /\ AllSame(MonthlyOf(result.name))
     /\ \A i \in 1..Len(MonthlyOf(result.name)) :
           MonthlyOf(result.name)[i].val.k = "num") =>
        \A i \in 1..Len(result.obj.s) :
           result.obj.s[i].val = IF i = 1 THEN NaN ELSE IntV(0)

\* C8 amended: the same, for a value that is a number other than zero.
C8_ConstantSeriesNonZero ==
    (/\ Ok("calculate_mom_returns")
     /\ AllSame(MonthlyOf(result.name))
     /\ \A i \in 1..Len(MonthlyOf(result.name)) :
           LET v == MonthlyOf(result.name)[i].val IN v.k = "num" /\ v.n # 0) =>
        \A i \in 1..Len(result.obj.s) :
           result.obj.s[i].val = IF i = 1 THEN NaN ELSE IntV(0)

\* two buckets of one non-zero value went through calculate_mom_returns
C8_Witness ==
    /\ Ok("calculate_mom_returns")
    /\ Len(MonthlyOf(result.name)) >= 2
    /\ AllSame(MonthlyOf(result.name))
    /\ MonthlyOf(result.name)[1].val.k = "num"
    /\ MonthlyOf(result.name)[1].val.n # 0
    /\ result.obj.s[2].val = IntV(0)

\* the rows of the table in the bucket key
RowsOf(key) == {i \in 1..Len(data.rows) : Bucket(data.rows[i]) = key}

\* C9: the series of calculate_monthly_average is in strictly ascending
\* (year, month) order, has exactly one bucket for each calendar month that
\* has a row, and a bucket's value is absent only when every daily value of
\* the index in it is absent.
C9_OneBucketPerMonthAscending ==
    Ok("calculate_monthly_average") =>
        LET s == result.obj.s
        IN  /\ \A i \in 1..(Len(s) - 1) :
                  s[i].key[1] * 12 + s[i].key[2] < s[i + 1].key[1] * 12 + s[i + 1].key[2]
            /\ {s[i].key : i \in 1..Len(s)}
                  = {Bucket(data.rows[j]) : j \in 1..Len(data.rows)}
            /\ \A i \in 1..Len(s) :
                  IsNa(s[i].val) =>
                     \A j \in RowsOf(s[i].key) : IsNa(data.rows[j].v[result.name])

\* a later year's earlier month follows, a calendar month has no rows, and a
\* bucket holds a value
C9_Witness ==
    /\ Ok("calculate_monthly_average")
    /\ Len(result.obj.s) = 2
    /\ result.obj.s[1].key = <<2020, 12>>
    /\ result.obj.s[2].key = <<2021, 2>>
    /\ ~IsNa(result.obj.s[2].val)

\* the series a call on a freshly constructed service returns
Sequential(name) ==
    CalcMonthlyAverage(<<>>, [c \in IndexCols |-> 0], name).obj.s

\* C10: in every interleaving of concurrent callers each series a caller
\* obtains is the one a sequential call for that index returns, and the cache
\* holds under each key exactly that series, for every index a caller has
\* got a series of: a race only computes a series again.
C10_RacesOnlyRecompute ==
    /\ \A k \in DOMAIN cache :
          /\ cache[k].of \in IndexCols
          /\ k = GetCacheKey(cache[k].of, "monthly_avg", <<>>)
          /\ cache[k].s = Sequential(cache[k].of)
    /\ \A t \in Callers :
          LET c == callers[t]
              asked == c.plan[c.at - 1]
          IN  (c.at > 1 /\ c.got # NoSeries) =>
                 /\ c.got.of = asked
                 /\ c.got.s = Sequential(asked)
                 /\ GetCacheKey(asked, "monthly_avg", <<>>) \in DOMAIN cache
                 /\ cache[GetCacheKey(asked, "monthly_avg", <<>>)].s = c.got.s

\* two callers raced: both missed the cache for one index and computed its
\* series, one has written and returned it, the other is about to write
C10_Witness ==
    \E t, u \in Callers :
        /\ t # u
        /\ callers[t].pc = "done"
        /\ callers[t].got # NoSeries
        /\ callers[u].pc = "write"
        /\ callers[u].local.of = callers[t].got.of
        /\ callers[t].plan = callers[u].plan

\* the horizon tokens and their months, as the claim lists them
RecognizedTokens == {"1M", "3M", "6M", "1Y", "2Y", "3Y", "4Y"}
HorizonMonths(p) ==
    CASE p = "1M" -> 1 [] p = "3M" -> 3 [] p = "6M" -> 6 [] p = "1Y" -> 12
      [] p = "2Y" -> 24 [] p = "3Y" -> 36 [] p = "4Y" -> 48

\* the forward return of bucket i of s over h months
ForwardOver(s, i, h) ==
    IF i + h <= Len(s) /\ ~IsNa(s[i].val) /\ ~IsNa(s[i + h].val)
       /\ s[i].val # IntV(0)
    THEN Round(SubOne(FDiv(s[i + h].val, s[i].val)), 4)
    ELSE None

\* C11: calculate_forward_returns, called with an index column and a horizon
\* token outside {1M, 3M, 6M, 1Y, 2Y, 3Y, 4Y}, raises the invalid-period
\* error and returns no matrix; called with a token of the set it does not
\* raise, and its matrix holds the returns over 1, 3, 6, 12, 24, 36 and 48
\* months respectively.  A request that carries a token reaches the
\* operation through get_heatmap, which answers with that matrix as its
\* heatmap, or with the invalid-period error as the detail of its error and
\* no response.
C11_UnrecognizedTokenRaisesInvalidPeriod ==
    /\ (result.op = "calculate_forward_returns" /\ result.name \in IndexCols) =>
          IF result.period \in RecognizedTokens
          THEN /\ result.status = "ok"
               /\ LET s == MonthlyOf(result.name)
                  IN  \A i \in 1..Len(s) :
                         CellAt(result.matrix, s[i].key)
                            = ForwardOver(s, i, HorizonMonths(result.period))
          ELSE /\ result.status = InvalidPeriod
               /\ result.matrix = <<>>
               /\ result.obj = NoSeries
               /\ result.scalar = None
    /\ (result.op = "get_heatmap" /\ result.name \in IndexCols
          /\ result.period # "") =>
          IF result.period \in RecognizedTokens
          THEN /\ result.status = "ok"
               /\ LET s == MonthlyOf(result.name)
                  IN  \A i \in 1..Len(s) :
                         CellAt(result.response.heatmap, s[i].key)
                            = ForwardOver(s, i, HorizonMonths(result.period))
          ELSE /\ result.status = ServerError(InvalidPeriod)
               /\ result.matrix = <<>>
               /\ result.response = <<>>

\* the token 5Y with an index column: the call raised the invalid-period
\* error
C11_Witness ==
    /\ result.op = "calculate_forward_returns"
    /\ result.name \in IndexCols
    /\ result.period = "5Y"
    /\ result.status = InvalidPeriod
    /\ result.matrix = <<>>

====
